---- MODULE Spec2Model ----
(***************************************************************************)
(* Model of phopyqthelper/widgets/console_output.py: the TextStream        *)
(* adapter and the ConsoleOutputWidget that displays captured stdout and   *)
(* stderr text in a QPlainTextEdit.                                        *)
(*                                                                         *)
(* Texts are sequences of characters.  A character is either NL (a line    *)
(* break) or a pair <<id, j>> naming the j-th line of the id-th text       *)
(* written, so that every line of the display can be traced back to the    *)
(* write that produced it.  The document of the QPlainTextEdit is a        *)
(* non-empty sequence of blocks (an empty document has one empty block);   *)
(* lines are short enough that no block wraps, so one block is one visual  *)
(* line.                                                                   *)
(***************************************************************************)
EXTENDS Integers, Sequences, FiniteSets, TLC

\* ------------------------------------------------------------------ bounds
MaxWrites == 4         \* texts written or appended in one behaviour
MaxTextLines == 3      \* line breaks in the longest single text
MaxMaxLines == 3       \* largest max_lines a widget is constructed with
MaxFailWrites == 2     \* writes, appends and flushes in one behaviour with failures
MaxQueued == 3         \* texts written in one behaviour with several threads
MaxOps == 5            \* capture operations in one behaviour
MaxUiOps == 1          \* clear and auto-scroll operations in one behaviour
NumWidgets == 2        \* widgets constructed in one behaviour
ViewLines == 2         \* lines of text the viewport shows at once
MaxNestedWrites == 1   \* texts written in one behaviour with nested captures

\* --------------------------------------------------------- stream objects
\* Object identities.  Adapters (TextStream objects) are the positive
\* numbers, in order of creation; the other streams are negative.
NoStream == 0          \* None
RealStdout == 0 - 1    \* sys.stdout before any widget exists
RealStderr == 0 - 2    \* sys.stderr before any widget exists
ForeignStdout == 0 - 3 \* a stream some other redirector installs as sys.stdout
ForeignStderr == 0 - 4 \* a stream some other redirector installs as sys.stderr
RealStreams == {RealStdout, RealStderr, ForeignStdout, ForeignStderr}

IsAdapter(ref) == ref > 0

Widgets == 1..NumWidgets
\* The UI thread, in which the widgets live, and two other threads.
Threads == {"ui", "bg", "bg2"}
NL == <<0, 0>>

\* -------------------------------------------------------------------- text
RECURSIVE LinesOf(_, _, _)
\* The text "id.j\n id.(j+1)\n ... id.n\n": lines j..n of text id.
LinesOf(id, j, n) ==
    IF j > n THEN <<>> ELSE <<(<<id, j>>), NL>> \o LinesOf(id, j + 1, n)

\* The text number id with n complete lines, then an unterminated word when
\* partial.  TextOf(id, 0, FALSE) is the empty string.
TextOf(id, n, partial) ==
    LinesOf(id, 1, n) \o (IF partial THEN <<(<<id, n + 1>>)>> ELSE <<>>)

Max(a, b) == IF a > b THEN a ELSE b
Min(a, b) == IF a < b THEN a ELSE b

\* ------------------------------------------------------- QTextDocument
EmptyDoc == <<(<<>>)>>

RECURSIVE InsertAtEnd(_, _)
\* QPlainTextEdit.insertPlainText with the cursor at the end of the
\* document: a character joins the last block, a line break opens a block.
InsertAtEnd(doc, text) ==
    IF text = <<>> THEN doc
    ELSE IF Head(text) = NL
         THEN InsertAtEnd(Append(doc, <<>>), Tail(text))
         ELSE InsertAtEnd([doc EXCEPT ![Len(doc)] = Append(@, Head(text))],
                          Tail(text))

blockCount(doc) == Len(doc)

\* cursor.movePosition(Start); cursor.movePosition(Down, MoveAnchor, n):
\* the 1-based block the cursor ends in.  Down stops at the last block.
BlockAfterDown(doc, n) == Min(1 + Max(n, 0), Len(doc))

\* The selection anchored at the start of block b and extended with
\* movePosition(End, KeepAnchor), End being the end of the DOCUMENT, then
\* removeSelectedText(): blocks before b stay, block b stays as an empty
\* block (its separator lies before the anchor), everything after goes.
RemoveFromBlockToEnd(doc, b) == Append(SubSeq(doc, 1, b - 1), <<>>)

\* Lines 178-186: the "limit buffer size" step of _append_text_internal.
TrimDocument(doc, max_lines) ==
    IF blockCount(doc) > max_lines
    THEN RemoveFromBlockToEnd(doc,
                              BlockAfterDown(doc, blockCount(doc) - max_lines))
    ELSE doc

\* --------------------------------------------------------- QScrollBar
\* The vertical scroll bar counts lines: value v shows lines v+1..v+ViewLines.
ScrollMaximum(doc) == Max(0, Len(doc) - ViewLines)

\* QWidgetTextControl.ensureCursorVisible with the cursor in block b.
EnsureVisible(v, b) ==
    IF b - 1 < v THEN b - 1
    ELSE IF b - 1 > v + ViewLines - 1 THEN b - ViewLines
    ELSE v

\* ------------------------------------------------------------------ state
VARIABLES
    sys_stdout,   \* the object sys.stdout refers to
    sys_stderr,   \* the object sys.stderr refers to
    streams,      \* the TextStream objects created so far, by identity
    widgets,      \* the ConsoleOutputWidget objects, by widget number
    queue,        \* queued text_written deliveries posted to the UI thread
    sink,         \* what has reached the non-adapter streams, in order
    nwrites,      \* number of texts written or appended so far
    nops,         \* number of capture operations so far
    written,      \* history: the non-empty writes made to adapters, in call order
    last,         \* the operation that led to this state and its outcome
    inflight      \* per thread: the TextStream.write call it is inside, if any

vars == <<sys_stdout, sys_stderr, streams, widgets, queue, sink, nwrites,
          nops, written, last, inflight>>

\* The program state as one value, threaded through the methods below.  exc
\* says that the call is raising an exception to its caller; ret is the
\* integer the outermost call returns, 0 also standing for None.
World ==
    [sys_stdout |-> sys_stdout, sys_stderr |-> sys_stderr,
     streams |-> streams, widgets |-> widgets, queue |-> queue,
     sink |-> sink, exc |-> FALSE, ret |-> 0, cont |-> <<>>]

Swallow(S) == [S EXCEPT !.exc = FALSE]

\* What the environment does during one call:
\*   dead     the adapters whose text_written.emit raises
\*   display  per widget: "ok"; "none" (the _text_edit attribute is None:
\*            the test of line 166 takes the unguarded fallback, and every
\*            later use of _text_edit raises AttributeError inside the try);
\*            "fail_insert" (moveCursor, line 175, raises); "fail_insert_text"
\*            (moveCursor has run and insertPlainText, line 176, raises);
\*            "fail_trim", "fail_scroll" (the first Qt call of that step
\*            raises, e.g. the C++ widget is gone)
\*   broken   the non-adapter streams whose write and flush raise
\*   slot_errors  what the Qt binding does with an exception that leaves a
\*            directly connected slot: "propagate" it out of emit, or
\*            "report" it and return from emit
\*   preempt  whether the interpreter lets other threads run between the Qt
\*            calls of the display update (after lines 176 and 186)
DisplayModes ==
    {"ok", "none", "fail_insert", "fail_insert_text", "fail_trim", "fail_scroll"}
GoodEnv ==
    [dead |-> {}, display |-> [w \in Widgets |-> "ok"], broken |-> {},
     slot_errors |-> "propagate", preempt |-> FALSE]

\* A widget before its construction.  The last six fields are history, not
\* fields of the object: the callback invocations, the insertPlainText calls,
\* the document as it would be had nothing been trimmed since the last
\* clear, the objects sys.stdout and sys.stderr were at the moment the
\* widget last installed an adapter over them, and whether its owner has
\* released its capture.
NoWidget ==
    [constructed |-> FALSE, original_stdout |-> NoStream,
     original_stderr |-> NoStream, stdout_stream |-> NoStream,
     stderr_stream |-> NoStream, capture_stdout |-> FALSE,
     capture_stderr |-> FALSE, text_callback |-> "none", max_lines |-> 1,
     auto_scroll |-> TRUE, doc |-> EmptyDoc, scroll |-> 0,
     cbLog |-> <<>>, inserted |-> <<>>, untrimmed |-> EmptyDoc,
     displaced_stdout |-> NoStream, displaced_stderr |-> NoStream,
     released |-> FALSE]

\* A queued connection: emit posts the call to the receiver's thread, whose
\* event loop runs the posted calls in the order they were posted.
post_event(q, ev) == Append(q, ev)

\* A direct connection whatever the emitting thread.
ConnectionIsDirect_always(thr) == TRUE

\* Qt's AutoConnection: the slot of the widget, which lives in the UI
\* thread, runs inside emit when emit is called on the UI thread, and is
\* posted to the UI thread's event queue otherwise.
ConnectionIsDirect(thr) == thr = "ui"

\* What a call passes down unchanged: the text, the thread it runs on, what
\* the environment does during this step, and whether another thread may run
\* after line 33 of a TextStream.write (steps) or the call runs alone.
Ctx(text, thr, env, steps) ==
    [text |-> text, thr |-> thr, env |-> env, steps |-> steps]

\* A place a thread is at inside a call.  The first frame of a thread that
\* is inside a call is what it runs next, the frames after it are the
\* callers to return to:
\*   "write"      stream a looked up in sys, its write not yet entered
\*   "flush"      stream a looked up in sys, its flush not yet entered
\*   "emit"       line 36 of write on adapter a, line 33 done
\*   "trim"       line 179 of _append_text_internal of widget a
\*   "scroll"     line 189 of _append_text_internal of widget a
\*   "slot"       emit of adapter a (line 36), waiting for the slot
\*   "fallback"   line 41 of write on adapter a, inside try/except
\*   "unguarded"  line 170 of _append_text_internal
\*   "guarded"    line 196 of _append_text_internal, inside try/except
\*   "deliver"    the event loop, which called the slot
\*   "setup_stdout", "setup_stderr"  lines 138 and 143 of widget a
\*   "capture_stderr"                line 233 of widget a
Frame(kind, a) == [kind |-> kind, a |-> a]

\* The call returns None.
None(S) == [S EXCEPT !.ret = 0]

RECURSIVE StreamWrite(_, _, _, _)
RECURSIVE TextStream_write(_, _, _, _)
RECURSIVE write_emit(_, _, _, _)
RECURSIVE write_except(_, _, _, _)
RECURSIVE write_return(_, _, _, _)
RECURSIVE on_text_written(_, _, _, _, _)
RECURSIVE append_text_internal(_, _, _, _, _)
RECURSIVE display_fallback(_, _, _, _)
RECURSIVE display_trim(_, _, _, _)
RECURSIVE display_scroll(_, _, _, _)
RECURSIVE Resume(_, _, _)

\* stream.write(text) on whatever object ref is, called from the frames K.
\* The result has in cont the frames left to run: none when the outermost
\* call has returned or raised.
StreamWrite(S, ref, c, K) ==
    IF IsAdapter(ref) THEN TextStream_write(S, ref, c, K)
    ELSE IF ref \in c.env.broken \/ ref = NoStream
    THEN Resume([S EXCEPT !.exc = TRUE], c, K)
    ELSE Resume([S EXCEPT !.sink = Append(@, [stream |-> ref, op |-> "write",
                                              text |-> c.text]),
                          !.ret = Len(c.text)], c, K)

\* fire_callback without its try/except: a raising callback aborts the append.
fire_callback_uncaught(S, w, text, source) ==
    IF S.widgets[w].text_callback # "none"
    THEN [S EXCEPT !.widgets[w].cbLog =
                       Append(@, [text |-> text, source |-> source]),
                   !.exc = (S.widgets[w].text_callback = "raises")]
    ELSE S

\* Lines 160-164 of _append_text_internal: the registered callback is called
\* with (text, source) inside try/except Exception, so what it raises is
\* dropped.
fire_callback(S, w, text, source) ==
    IF S.widgets[w].text_callback # "none"
    THEN [S EXCEPT !.widgets[w].cbLog =
                       Append(@, [text |-> text, source |-> source])]
    ELSE S

\* Lines 192-198 of _append_text_internal: a Qt call of the display update
\* raised; the text is written to the original stdout, guarded.
display_fallback(S, w, c, K) ==
    IF S.widgets[w].original_stdout # NoStream
    THEN StreamWrite(S, S.widgets[w].original_stdout, c,
                     <<Frame("guarded", 0)>> \o K)
    ELSE Resume(None(S), c, K)

\* Lines 189-191 of _append_text_internal.
display_scroll(S, w, c, K) ==
    LET wd == S.widgets[w]
    IN  IF ~wd.auto_scroll THEN Resume(None(S), c, K)
        ELSE IF c.env.display[w] \in {"fail_scroll", "none"}
        THEN display_fallback(S, w, c, K)
        ELSE Resume(None([S EXCEPT !.widgets[w].scroll =
                                       ScrollMaximum(wd.doc)]), c, K)

\* Lines 179-186 of _append_text_internal.
display_trim(S, w, c, K) ==
    LET wd == S.widgets[w]
        d2 == TrimDocument(wd.doc, wd.max_lines)
        S3 == [S EXCEPT !.widgets[w].doc = d2,
                        !.widgets[w].scroll = Min(@, ScrollMaximum(d2))]
    IN  IF c.env.display[w] \in {"fail_trim", "none"}
        THEN display_fallback(S, w, c, K)
        ELSE IF c.steps /\ c.env.preempt /\ wd.auto_scroll
        THEN [S3 EXCEPT !.cont = <<Frame("scroll", w)>> \o K]
        ELSE display_scroll(S3, w, c, K)

\* Lines 175-176 of _append_text_internal: moveCursor(End) brings the last
\* block into view, insertPlainText appends the text.
display_insert(S, w, source, c, K) ==
    LET wd == S.widgets[w]
        moved == [S EXCEPT !.widgets[w].scroll =
                               EnsureVisible(wd.scroll, Len(wd.doc))]
        S2 == [moved EXCEPT !.widgets[w].doc = InsertAtEnd(wd.doc, c.text),
                            !.widgets[w].untrimmed = InsertAtEnd(@, c.text),
                            !.widgets[w].inserted =
                                Append(@, [text |-> c.text, source |-> source,
                                           thread |-> c.thr])]
    IN  IF c.env.display[w] \in {"fail_insert", "none"}
        THEN display_fallback(S, w, c, K)
        ELSE IF c.env.display[w] = "fail_insert_text"
        THEN display_fallback(moved, w, c, K)
        ELSE IF c.steps /\ c.env.preempt
        THEN [S2 EXCEPT !.cont = <<Frame("trim", w)>> \o K]
        ELSE display_trim(S2, w, c, K)

\* ConsoleOutputWidget._append_text_internal, lines 154-198.  Every path
\* returns None, whatever a fallback write returned.
append_text_internal(S, w, source, c, K) ==
    IF c.text = <<>> THEN Resume(S, c, K)
    ELSE
    LET wd == S.widgets[w]
        S1 == fire_callback(S, w, c.text, source)
    IN  IF S1.exc THEN Resume(S1, c, K)
        ELSE IF c.env.display[w] = "none"
        THEN \* lines 167-171: not guarded by a try
             IF wd.original_stdout # NoStream
             THEN StreamWrite(S1, wd.original_stdout, c,
                              <<Frame("unguarded", 0)>> \o K)
             ELSE Resume(None(S1), c, K)
        ELSE display_insert(S1, w, source, c, K)

\* ConsoleOutputWidget._on_text_written, lines 149-151.
on_text_written(S, w, source, c, K) == append_text_internal(S, w, source, c, K)

\* Line 33 of TextStream.write: self._buffer += text.
write_buffer(S, a, text) == [S EXCEPT !.streams[a].buffer = @ \o text]

\* TextStream.write, lines 30-44.  After line 33 of a non-empty write other
\* threads may run before this thread goes on with line 36.
TextStream_write(S, a, c, K) ==
    IF c.text = <<>> THEN Resume([S EXCEPT !.ret = 0], c, K)
    ELSE IF c.steps
    THEN [write_buffer(S, a, c.text) EXCEPT !.cont = <<Frame("emit", a)>> \o K]
    ELSE write_emit(write_buffer(S, a, c.text), a, c, K)

\* Line 36 of TextStream.write: text_written.emit(text, source).
write_emit(S, a, c, K) ==
    LET st == S.streams[a]
    IN  IF a \in c.env.dead THEN write_except([S EXCEPT !.exc = TRUE], a, c, K)
        ELSE IF ConnectionIsDirect(c.thr)
        THEN on_text_written(S, st.widget, st.source, c,
                             <<Frame("slot", a)>> \o K)
        ELSE write_return([S EXCEPT !.queue =
                               post_event(@, [widget |-> st.widget,
                                              text |-> c.text,
                                              source |-> st.source])],
                          a, c, K)

\* Lines 37-43 of TextStream.write: emit raised; the text goes to the
\* original stream when there is one, and what that write raises is dropped.
write_except(S, a, c, K) ==
    IF S.streams[a].original_stream # NoStream
    THEN StreamWrite(Swallow(S), S.streams[a].original_stream, c,
                     <<Frame("fallback", a)>> \o K)
    ELSE write_return(Swallow(S), a, c, K)

\* Line 44 of TextStream.write, for a non-empty text.
write_return(S, a, c, K) == Resume([S EXCEPT !.ret = Len(c.text)], c, K)

\* A call has returned or raised (S.exc) into the frames K.
Resume(S, c, K) ==
    IF K = <<>> THEN [S EXCEPT !.cont = <<>>]
    ELSE
    LET f == Head(K)
        rest == Tail(K)
    IN  CASE f.kind = "slot" ->
                \* the slot returned into emit, or raised into it
                IF ~S.exc THEN write_return(S, f.a, c, rest)
                ELSE IF c.env.slot_errors = "report"
                THEN write_return(Swallow(S), f.a, c, rest)
                ELSE write_except(S, f.a, c, rest)
          [] f.kind = "fallback" ->
                \* lines 42-43
                write_return(Swallow(S), f.a, c, rest)
          [] f.kind = "unguarded" ->
                \* line 171, or the exception of line 170 goes up
                Resume(IF S.exc THEN S ELSE None(S), c, rest)
          [] f.kind = "guarded" ->
                \* lines 197-198
                Resume(None(Swallow(S)), c, rest)
          [] f.kind = "deliver" ->
                \* what the slot raises is reported by the binding
                Resume(Swallow(S), c, rest)

\* stream.write(text) run without another thread in between.
StreamWriteWhole(S, ref, text, thr, env) ==
    StreamWrite(S, ref, Ctx(text, thr, env, FALSE), <<>>)

RECURSIVE StreamFlush(_, _, _)
RECURSIVE TextStream_flush(_, _, _)

\* stream.flush() on whatever object ref is.
StreamFlush(S, ref, env) ==
    IF IsAdapter(ref) THEN TextStream_flush(S, ref, env)
    ELSE IF ref \in env.broken \/ ref = NoStream THEN [S EXCEPT !.exc = TRUE]
    ELSE [S EXCEPT !.sink = Append(@, [stream |-> ref, op |-> "flush",
                                       text |-> <<>>])]

\* TextStream.flush, lines 47-50: no try around the original's flush.
TextStream_flush(S, a, env) ==
    IF S.streams[a].original_stream # NoStream
    THEN StreamFlush(S, S.streams[a].original_stream, env)
    ELSE S

\* append_text that notifies the callback of an empty text too.
append_text_notifies_empty(S, w, text, source, env) ==
    IF text = <<>> THEN fire_callback(S, w, text, source)
    ELSE append_text_internal(S, w, source, Ctx(text, "ui", env, TRUE), <<>>)

\* ConsoleOutputWidget.append_text, lines 201-208.
append_text(S, w, text, source, env) ==
    append_text_internal(S, w, source, Ctx(text, "ui", env, TRUE), <<>>)

\* TextStream(original, source) connected to the widget's _on_text_written.
NewStream(S, w, original, source) ==
    Append(S.streams, [widget |-> w, source |-> source,
                       original_stream |-> original, buffer |-> <<>>])

\* Lines 138-141 of _setup_streams.
setup_stdout(S, w) ==
    LET wd == S.widgets[w]
    IN  IF wd.capture_stdout
        THEN [S EXCEPT !.streams = NewStream(S, w, wd.original_stdout,
                                             "stdout"),
                       !.widgets[w].stdout_stream = Len(S.streams) + 1,
                       !.widgets[w].displaced_stdout = S.sys_stdout,
                       !.sys_stdout = Len(S.streams) + 1]
        ELSE S

\* Lines 143-146 of _setup_streams.
setup_stderr(S, w) ==
    LET wd == S.widgets[w]
    IN  IF wd.capture_stderr
        THEN [S EXCEPT !.streams = NewStream(S, w, wd.original_stderr,
                                             "stderr"),
                       !.widgets[w].stderr_stream = Len(S.streams) + 1,
                       !.widgets[w].displaced_stderr = S.sys_stderr,
                       !.sys_stderr = Len(S.streams) + 1]
        ELSE S

\* ConsoleOutputWidget._setup_streams, lines 136-146, run without another
\* thread in between.
setup_streams(S, w) == setup_stderr(setup_stdout(S, w), w)

\* Lines 93-103 of __init__: the fields, and _setup_ui (107-133).
init_fields(S, w, capture_stdout, capture_stderr, text_callback, max_lines) ==
    [S EXCEPT !.widgets[w] =
        [NoWidget EXCEPT !.constructed = TRUE,
                         !.original_stdout = S.sys_stdout,
                         !.original_stderr = S.sys_stderr,
                         !.capture_stdout = capture_stdout,
                         !.capture_stderr = capture_stderr,
                         !.text_callback = text_callback,
                         !.max_lines = max_lines,
                         !.auto_scroll = TRUE]]

\* ConsoleOutputWidget.__init__, lines 92-104, run without another thread in
\* between.
construct(S, w, capture_stdout, capture_stderr, text_callback, max_lines) ==
    setup_streams(init_fields(S, w, capture_stdout, capture_stderr,
                              text_callback, max_lines), w)

\* __init__ as far as the thread runs before another thread can: the fields
\* are assigned (lines 94-102), then come the calls of _setup_ui, the calls
\* of lines 139-140 before sys.stdout is assigned, and the calls of lines
\* 144-145 before sys.stderr is assigned.
construct_begin(S, w, co, ce, text_callback, max_lines) ==
    [init_fields(S, w, co, ce, text_callback, max_lines)
        EXCEPT !.cont =
            (IF co THEN <<Frame("setup_stdout", w)>> ELSE <<>>)
            \o (IF ce THEN <<Frame("setup_stderr", w)>> ELSE <<>>)]

\* Lines 219-230 of set_capture.
set_capture_stdout(S, w, stdout) ==
    LET wd == S.widgets[w]
    IN  IF stdout /\ ~wd.capture_stdout
        THEN [S EXCEPT !.streams = NewStream(S, w, wd.original_stdout,
                                             "stdout"),
                       !.widgets[w].stdout_stream = Len(S.streams) + 1,
                       !.widgets[w].displaced_stdout = S.sys_stdout,
                       !.sys_stdout = Len(S.streams) + 1,
                       !.widgets[w].capture_stdout = TRUE]
        ELSE IF ~stdout /\ wd.capture_stdout
        THEN [S EXCEPT !.sys_stdout =
                           IF S.sys_stdout = wd.stdout_stream
                           THEN wd.original_stdout ELSE @,
                       !.widgets[w].stdout_stream = NoStream,
                       !.widgets[w].capture_stdout = FALSE]
        ELSE S

\* Lines 233-244 of set_capture.
set_capture_stderr(S, w, stderr) ==
    LET wd == S.widgets[w]
    IN  IF stderr /\ ~wd.capture_stderr
        THEN [S EXCEPT !.streams = NewStream(S, w, wd.original_stderr,
                                             "stderr"),
                       !.widgets[w].stderr_stream = Len(S.streams) + 1,
                       !.widgets[w].displaced_stderr = S.sys_stderr,
                       !.sys_stderr = Len(S.streams) + 1,
                       !.widgets[w].capture_stderr = TRUE]
        ELSE IF ~stderr /\ wd.capture_stderr
        THEN [S EXCEPT !.sys_stderr =
                           IF S.sys_stderr = wd.stderr_stream
                           THEN wd.original_stderr ELSE @,
                       !.widgets[w].stderr_stream = NoStream,
                       !.widgets[w].capture_stderr = FALSE]
        ELSE S

\* set_capture with the stderr half testing the stdout argument.
set_capture_coupled(S, w, stdout, stderr) ==
    set_capture_stderr(set_capture_stdout(S, w, stdout), w, stdout)

\* ConsoleOutputWidget.set_capture, lines 211-244, run without another
\* thread in between.
set_capture(S, w, stdout, stderr) ==
    set_capture_stderr(set_capture_stdout(S, w, stdout), w, stderr)

\* set_capture as far as the thread runs before another thread can.  Enabling
\* the stderr capture makes calls (lines 235-236) after the stdout half;
\* without them nothing lets another thread in before the method returns.
set_capture_begin(S, w, stdout, stderr) ==
    IF stderr /\ ~S.widgets[w].capture_stderr
    THEN [set_capture_stdout(S, w, stdout)
             EXCEPT !.cont = <<Frame("capture_stderr", w)>>]
    ELSE set_capture(S, w, stdout, stderr)

\* ConsoleOutputWidget.set_text_callback, lines 247-253.
set_text_callback(S, w, callback) ==
    [S EXCEPT !.widgets[w].text_callback = callback]

\* ConsoleOutputWidget._on_auto_scroll_toggled, lines 256-258.
on_auto_scroll_toggled(S, w, checked) ==
    [S EXCEPT !.widgets[w].auto_scroll = checked]

\* ConsoleOutputWidget.clear, lines 261-263.
clear(S, w) ==
    [S EXCEPT !.widgets[w].doc = EmptyDoc, !.widgets[w].scroll = 0,
              !.widgets[w].untrimmed = EmptyDoc]

\* restore_streams without the identity checks.
restore_streams_unguarded(S, w) ==
    LET wd == S.widgets[w]
        S1 == IF wd.stdout_stream # NoStream
              THEN [S EXCEPT !.sys_stdout = wd.original_stdout]
              ELSE S
    IN  IF wd.stderr_stream # NoStream
        THEN [S1 EXCEPT !.sys_stderr = wd.original_stderr]
        ELSE S1

\* ConsoleOutputWidget.restore_streams, lines 266-271.
restore_streams(S, w) ==
    LET wd == S.widgets[w]
        S1 == IF wd.stdout_stream # NoStream /\ S.sys_stdout = wd.stdout_stream
              THEN [S EXCEPT !.sys_stdout = wd.original_stdout]
              ELSE S
    IN  IF wd.stderr_stream # NoStream /\ S1.sys_stderr = wd.stderr_stream
        THEN [S1 EXCEPT !.sys_stderr = wd.original_stderr]
        ELSE S1

\* ConsoleOutputWidget.closeEvent, lines 274-277.
closeEvent(S, w) == restore_streams(S, w)

\* ---------------------------------------------------------------- actions
SysRef(which) == IF which = "stdout" THEN sys_stdout ELSE sys_stderr

NoOp ==
    [op |-> "init", calling |-> "", widget |-> 0, which |-> "",
     thread |-> "ui", text |-> <<>>, exc |-> FALSE, ret |-> 0,
     env |-> GoodEnv, arg_stdout |-> FALSE, arg_stderr |-> FALSE,
     target |-> NoStream, before_stdout |-> NoStream,
     before_stderr |-> NoStream]

\* A thread that is inside no call.  A thread inside one holds the call it
\* made and the frames it has left to run.
NoCall == [call |-> NoOp, stack |-> <<>>]

\* The UI thread is inside no call: its event loop can run a handler.
UiIdle == inflight["ui"] = NoCall

\* Thread t has looked up sys.stdout or sys.stderr and has not yet entered
\* the method it calls on it.
AtEntry(t) ==
    /\ inflight[t].stack # <<>>
    /\ Head(inflight[t].stack).kind \in {"write", "flush"}

\* The texts of the write calls that have been entered and not yet left.
TextsInFlight ==
    {inflight[t].call.text :
        t \in {u \in Threads : inflight[u].call.op = "write" /\ ~AtEntry(u)}}

\* The step just performed: the call it belongs to, what it was called with,
\* on which object (target), what sys.stdout and sys.stderr were before the
\* step, and whether the call raised (exc) or what it returned (ret).  A
\* step that leaves the thread inside its call has op "call" and the name
\* of the call in calling.
Did(R, op) ==
    [(IF R.cont = <<>> THEN op
      ELSE [op EXCEPT !.op = "call", !.calling = op.op])
        EXCEPT !.exc = R.exc, !.ret = R.ret,
               !.before_stdout = sys_stdout, !.before_stderr = sys_stderr]

\* Operations of no thread in particular.
OutsideOps == {"foreign"}

Commit(R, op) ==
    /\ sys_stdout' = R.sys_stdout
    /\ sys_stderr' = R.sys_stderr
    /\ streams' = R.streams
    /\ widgets' = R.widgets
    /\ queue' = R.queue
    /\ sink' = R.sink
    /\ written' = IF /\ op.op = "write"
                     /\ \/ AtEntry(op.thread)
                        \/ inflight[op.thread] = NoCall /\ R.cont = <<>>
                     /\ IsAdapter(op.target) /\ op.text # <<>>
                  THEN Append(written, [text |-> op.text, which |-> op.which,
                                        thread |-> op.thread,
                                        during |-> TextsInFlight])
                  ELSE written
    /\ inflight' = IF op.op \in OutsideOps THEN inflight
                   ELSE [inflight EXCEPT ![op.thread] =
                            IF R.cont = <<>> THEN NoCall
                            ELSE [call |-> [op EXCEPT !.env = GoodEnv],
                                  stack |-> R.cont]]
    /\ last' = Did(R, op)

\* The state before any widget exists.
Boot ==
    [sys_stdout |-> RealStdout, sys_stderr |-> RealStderr, streams |-> <<>>,
     widgets |-> [w \in Widgets |-> NoWidget], queue |-> <<>>, sink |-> <<>>,
     exc |-> FALSE, ret |-> 0, cont |-> <<>>]

StartIn(S) ==
    /\ sys_stdout = S.sys_stdout
    /\ sys_stderr = S.sys_stderr
    /\ streams = S.streams
    /\ widgets = S.widgets
    /\ queue = S.queue
    /\ sink = S.sink
    /\ nwrites = 0
    /\ nops = 0
    /\ written = <<>>
    /\ last = NoOp
    /\ inflight = [t \in Threads |-> NoCall]

\* What a thread inside the call k runs next in the state S, up to the
\* point where another thread can run again or to the end of the call.
RunOn(S, k, thr, env) ==
    LET f == Head(k.stack)
        rest == Tail(k.stack)
        c == Ctx(k.call.text, thr, env, TRUE)
    IN  CASE f.kind = "write" -> StreamWrite(S, f.a, c, rest)
          [] f.kind = "flush" -> [StreamFlush(S, f.a, env) EXCEPT !.cont = rest]
          [] f.kind = "emit" -> write_emit(S, f.a, c, rest)
          [] f.kind = "trim" -> display_trim(S, f.a, c, rest)
          [] f.kind = "scroll" -> display_scroll(S, f.a, c, rest)
          [] f.kind = "setup_stdout" ->
                [setup_stdout(S, f.a) EXCEPT !.cont = rest]
          [] f.kind = "setup_stderr" ->
                [setup_stderr(S, f.a) EXCEPT !.cont = rest]
          [] f.kind = "capture_stderr" ->
                [set_capture_stderr(S, f.a, k.call.arg_stderr)
                    EXCEPT !.cont = rest]

\* Thread thr enters the write it is about to call on the stream it looked
\* up: lines 30-33 on an adapter (after which other threads may run), the
\* whole write on another stream.
EnterWrite(thr, env) ==
    /\ inflight[thr] # NoCall
    /\ Head(inflight[thr].stack).kind = "write"
    /\ Commit(RunOn(World, inflight[thr], thr, env),
              [inflight[thr].call EXCEPT !.env = env])
    /\ UNCHANGED <<nwrites, nops>>

\* Thread thr runs the flush it is about to call on the stream it looked up.
EnterFlush(thr, env) ==
    /\ inflight[thr] # NoCall
    /\ Head(inflight[thr].stack).kind = "flush"
    /\ Commit(RunOn(World, inflight[thr], thr, env),
              [inflight[thr].call EXCEPT !.env = env])
    /\ UNCHANGED <<nwrites, nops>>

\* Thread thr runs on inside the call it has entered: lines 36-44 of a
\* write (the emission with the slot on the UI thread, the fallback, the
\* return) and what its callers do after it, up to line 33 of a next write
\* to an adapter; the next Qt call of a display update; or the next half of
\* _setup_streams or set_capture.
Continue(thr, env) ==
    /\ inflight[thr] # NoCall
    /\ ~AtEntry(thr)
    /\ Commit(RunOn(World, inflight[thr], thr, env),
              [inflight[thr].call EXCEPT !.env = env])
    /\ UNCHANGED <<nwrites, nops>>

\* w = ConsoleOutputWidget(capture_stdout=co, capture_stderr=ce,
\*                         text_callback=cb, max_lines=ml)
Construct(w, co, ce, cb, ml) ==
    /\ UiIdle
    /\ ~widgets[w].constructed
    /\ \A v \in Widgets : v < w => widgets[v].constructed
    /\ Commit(construct_begin(World, w, co, ce, cb, ml),
              [NoOp EXCEPT !.op = "construct", !.widget = w,
                           !.arg_stdout = co, !.arg_stderr = ce])
    /\ nops' = nops + 1
    /\ UNCHANGED nwrites

\* sys.<which>.write(text) called on thread thr (what print does) while no
\* other thread is inside a call: the whole call.
WriteSys(which, thr, n, partial, env) ==
    LET text == TextOf(nwrites + 1, n, partial)
    IN  /\ \A t \in Threads : inflight[t] = NoCall
        /\ Commit(StreamWriteWhole(World, SysRef(which), text, thr, env),
                  [NoOp EXCEPT !.op = "write", !.which = which,
                               !.thread = thr, !.text = text, !.env = env,
                               !.target = SysRef(which)])
        /\ nwrites' = nwrites + 1
        /\ UNCHANGED nops

\* Thread thr evaluates sys.<which> for the call sys.<which>.write(text)
\* (what print does) while other threads run: it holds the stream object
\* and has not yet entered its write, so what sys.<which> refers to can
\* change before it does.
WriteCall(which, thr, n, partial) ==
    LET text == TextOf(nwrites + 1, n, partial)
        ref == SysRef(which)
    IN  /\ inflight[thr] = NoCall
        /\ Commit([World EXCEPT !.cont = <<Frame("write", ref)>>],
                  [NoOp EXCEPT !.op = "write", !.which = which,
                               !.thread = thr, !.text = text,
                               !.target = ref])
        /\ nwrites' = nwrites + 1
        /\ UNCHANGED nops

\* w.append_text(text) called on the UI thread.
AppendText(w, n, partial, env) ==
    LET text == TextOf(nwrites + 1, n, partial)
    IN  /\ UiIdle
        /\ widgets[w].constructed
        /\ Commit(append_text(World, w, text, "manual", env),
                  [NoOp EXCEPT !.op = "append_text", !.widget = w,
                               !.which = "manual", !.text = text,
                               !.env = env])
        /\ nwrites' = nwrites + 1
        /\ UNCHANGED nops

\* The UI thread's event loop delivers the oldest queued text_written.  What
\* the slot raises is reported by the binding; there is no caller.
Deliver(env) ==
    /\ UiIdle
    /\ queue # <<>>
    /\ LET ev == Head(queue)
       IN  Commit(on_text_written([World EXCEPT !.queue = Tail(queue)],
                                  ev.widget, ev.source,
                                  Ctx(ev.text, "ui", env, TRUE),
                                  <<Frame("deliver", 0)>>),
                  [NoOp EXCEPT !.op = "deliver", !.widget = ev.widget,
                               !.which = ev.source, !.text = ev.text,
                               !.env = env])
    /\ UNCHANGED <<nwrites, nops>>

\* Thread thr evaluates sys.<which> for the call sys.<which>.flush().
Flush(which, thr) ==
    /\ inflight[thr] = NoCall
    /\ Commit([World EXCEPT !.cont = <<Frame("flush", SysRef(which))>>],
              [NoOp EXCEPT !.op = "flush", !.which = which, !.thread = thr,
                           !.target = SysRef(which)])
    /\ nwrites' = nwrites + 1
    /\ UNCHANGED nops

SetCapture(w, so, se) ==
    /\ UiIdle
    /\ widgets[w].constructed
    /\ Commit(set_capture_begin(World, w, so, se),
              [NoOp EXCEPT !.op = "set_capture", !.widget = w,
                           !.arg_stdout = so, !.arg_stderr = se])
    /\ nops' = nops + 1
    /\ UNCHANGED nwrites

RestoreStreams(w) ==
    /\ UiIdle
    /\ widgets[w].constructed
    /\ Commit(restore_streams(World, w),
              [NoOp EXCEPT !.op = "restore_streams", !.widget = w])
    /\ nops' = nops + 1
    /\ UNCHANGED nwrites

CloseEvent(w) ==
    /\ UiIdle
    /\ widgets[w].constructed
    /\ Commit(closeEvent(World, w),
              [NoOp EXCEPT !.op = "closeEvent", !.widget = w])
    /\ nops' = nops + 1
    /\ UNCHANGED nwrites

SetTextCallback(w, cb) ==
    /\ UiIdle
    /\ widgets[w].constructed
    /\ widgets[w].text_callback # cb
    /\ Commit(set_text_callback(World, w, cb),
              [NoOp EXCEPT !.op = "set_text_callback", !.widget = w])
    /\ UNCHANGED <<nwrites, nops>>

AutoScrollToggled(w, checked) ==
    /\ UiIdle
    /\ widgets[w].constructed
    /\ widgets[w].auto_scroll # checked
    /\ Commit(on_auto_scroll_toggled(World, w, checked),
              [NoOp EXCEPT !.op = "auto_scroll", !.widget = w])
    /\ nops' = nops + 1
    /\ UNCHANGED nwrites

Clear(w) ==
    /\ UiIdle
    /\ widgets[w].constructed
    /\ Commit(clear(World, w), [NoOp EXCEPT !.op = "clear", !.widget = w])
    /\ nops' = nops + 1
    /\ UNCHANGED nwrites

\* Some other redirector (not a widget) installs its own stream.
ForeignRedirect(which) ==
    /\ Commit(IF which = "stdout"
              THEN [World EXCEPT !.sys_stdout = ForeignStdout]
              ELSE [World EXCEPT !.sys_stderr = ForeignStderr],
              [NoOp EXCEPT !.op = "foreign", !.which = which])
    /\ nops' = nops + 1
    /\ UNCHANGED nwrites

ReleaseWays == {"set_capture", "restore_streams", "closeEvent"}

\* The owner of widget w gives up its capture, once, in one of the three
\* ways the class offers: w.set_capture(False, False), w.restore_streams()
\* or closing the widget.
Release(w, how) ==
    /\ UiIdle
    /\ widgets[w].constructed
    /\ ~widgets[w].released
    /\ LET R == CASE how = "set_capture" -> set_capture(World, w, FALSE, FALSE)
                  [] how = "restore_streams" -> restore_streams(World, w)
                  [] how = "closeEvent" -> closeEvent(World, w)
       IN  Commit([R EXCEPT !.widgets[w].released = TRUE],
                  [NoOp EXCEPT !.op = how, !.widget = w])
    /\ nops' = nops + 1
    /\ UNCHANGED nwrites

\* --------------------------------------------------------- specifications
Streams == {"stdout", "stderr"}
CallbackKinds == {"none", "ok", "raises"}

\* The texts of the display specification: "", "w", "l\n" and a text of
\* MaxTextLines lines.
TextShapes == {<<0, FALSE>>, <<0, TRUE>>, <<1, FALSE>>, <<MaxTextLines, FALSE>>}

\* One widget capturing both streams; texts of every shape reach it from
\* stdout and from append_text on the UI thread, nothing fails.
InitDisplay ==
    \E ml \in 1..MaxMaxLines : StartIn(construct(Boot, 1, TRUE, TRUE, "ok", ml))

NextDisplay ==
    \/ /\ nwrites < MaxWrites
       /\ \E sh \in TextShapes :
            \/ WriteSys("stdout", "ui", sh[1], sh[2], GoodEnv)
            \/ AppendText(1, sh[1], sh[2], GoodEnv)
    \/ /\ nops < MaxUiOps
       /\ \/ Clear(1)
          \/ \E b \in BOOLEAN : AutoScrollToggled(1, b)

SpecDisplay == InitDisplay /\ [][NextDisplay]_vars

\* What can fail during one call on the single widget: nothing; the
\* emission of every adapter; or the display in one of its modes; each with
\* the original streams working or broken.  How the binding treats an
\* exception leaving a slot matters only when one can leave it.
EnvOf(dead, mode, broken, policy) ==
    [dead |-> dead, display |-> [w \in Widgets |-> mode], broken |-> broken,
     slot_errors |-> policy, preempt |-> FALSE]

DisplayEnvs ==
    {EnvOf({}, m, b, "propagate") : m \in DisplayModes, b \in {{}, RealStreams}}

EmitEnvs ==
    {EnvOf(1..Len(streams), "ok", b, "propagate") : b \in {{}, RealStreams}}

FailEnvs ==
    DisplayEnvs \cup EmitEnvs \cup {EnvOf({}, "none", RealStreams, "report")}

\* The streams a thread writes to: the UI thread to both, one of the other
\* threads to stdout and the other to stderr.
StreamsOf(thr) ==
    IF thr = "ui" THEN Streams
    ELSE IF thr = "bg" THEN {"stdout"} ELSE {"stderr"}

\* The threads of the specification with failures: the UI thread and one
\* other thread.
FailThreads == {"ui", "bg"}

\* One widget capturing both streams, with a callback that may raise; writes
\* from the UI thread and another thread, overlapping, append_text and
\* flush, under every failure above.
InitFail ==
    \E cb \in CallbackKinds :
        StartIn(construct(Boot, 1, TRUE, TRUE, cb, MaxMaxLines))

NextFail ==
    \/ /\ nwrites < MaxFailWrites
       /\ \/ \E thr \in FailThreads, n \in {0, 1} :
                \E which \in StreamsOf(thr) : WriteCall(which, thr, n, FALSE)
          \/ \E which \in Streams : Flush(which, "bg")
    \/ \E thr \in FailThreads : EnterWrite(thr, GoodEnv)
    \/ \E b \in {{}, RealStreams} :
            EnterFlush("bg", EnvOf({}, "ok", b, "propagate"))
    \/ \E env \in FailEnvs : Continue("ui", env)
    \/ \E env \in EmitEnvs \cup {GoodEnv} : Continue("bg", env)
    \/ /\ nwrites < MaxFailWrites
       /\ \/ \E env \in DisplayEnvs : AppendText(1, 1, FALSE, env)
          \/ AppendText(1, 0, FALSE, GoodEnv)
    \/ \E env \in DisplayEnvs : Deliver(env)
    \/ \E cb \in CallbackKinds : SetTextCallback(1, cb)

SpecFail == InitFail /\ [][NextFail]_vars

\* One widget capturing both streams; one-line texts written to both
\* streams from the UI thread and from two other threads, the calls
\* overlapping, nothing failing.
InitThreads == StartIn(construct(Boot, 1, TRUE, TRUE, "ok", MaxMaxLines))

NextThreads ==
    \/ /\ nwrites < MaxQueued
       /\ \E thr \in Threads : \E which \in StreamsOf(thr) :
            WriteCall(which, thr, 1, FALSE)
    \/ \E thr \in Threads : EnterWrite(thr, GoodEnv)
    \/ \E thr \in Threads : Continue(thr, GoodEnv)
    \/ Deliver(GoodEnv)

SpecThreads == InitThreads /\ [][NextThreads]_vars

\* The display in each of its modes, the original streams working.
WorkingEnvs == {EnvOf({}, m, {}, "propagate") : m \in DisplayModes}

\* The display update of a call with other threads running between its Qt
\* calls, the display working or failing at the trimming or the scrolling.
PreemptEnvs ==
    {[EnvOf({}, m, {}, "propagate") EXCEPT !.preempt = TRUE] :
        m \in {"ok", "fail_trim", "fail_scroll"}}

\* One widget capturing both streams; texts written to both streams from
\* the UI thread and another thread, the calls overlapping with each other,
\* with the display updates (which other threads may interrupt between
\* their Qt calls) and with a restore_streams that may fall between a
\* thread's lookup of sys.stdout and its write; the emission or the display
\* may fail.
InitPreempt == StartIn(construct(Boot, 1, TRUE, TRUE, "ok", MaxMaxLines))

NextPreempt ==
    \/ /\ nwrites < MaxFailWrites
       /\ \E thr \in FailThreads, n \in {0, 1} :
            \E which \in StreamsOf(thr) : WriteCall(which, thr, n, FALSE)
    \/ \E thr \in FailThreads : EnterWrite(thr, GoodEnv)
    \/ \E env \in WorkingEnvs \cup EmitEnvs \cup PreemptEnvs :
            Continue("ui", env)
    \/ \E env \in EmitEnvs \cup {GoodEnv} : Continue("bg", env)
    \/ \E env \in WorkingEnvs \cup PreemptEnvs : Deliver(env)
    \/ /\ nops < MaxUiOps
       /\ RestoreStreams(1)

SpecPreempt == InitPreempt /\ [][NextPreempt]_vars

\* Widgets constructed with any capture flags, capture toggled, streams
\* restored, widgets closed, and another redirector installing its own
\* streams, in any order and also while a constructor or set_capture is
\* between its two halves.  Widgets are numbered in the order of their
\* construction.
InitCapture == StartIn(Boot)

NextCapture ==
    \/ /\ nops < MaxOps
       /\ \E w \in Widgets :
            \/ \E co \in BOOLEAN, ce \in BOOLEAN :
                    Construct(w, co, ce, "ok", MaxMaxLines)
            \/ \E so \in BOOLEAN, se \in BOOLEAN : SetCapture(w, so, se)
            \/ RestoreStreams(w)
            \/ CloseEvent(w)
    \/ /\ nops < MaxOps
       /\ \E which \in Streams : ForeignRedirect(which)
    \/ Continue("ui", GoodEnv)

SpecCapture == InitCapture /\ [][NextCapture]_vars

\* Widgets that capture stdout constructed one after another, each released
\* once in any of the three ways and in any order, with text written to
\* sys.stdout on the UI thread in between.
InitNested == StartIn(Boot)

NextNested ==
    \/ \E w \in Widgets, ce \in BOOLEAN :
            Construct(w, TRUE, ce, "ok", MaxMaxLines)
    \/ \E w \in Widgets, how \in ReleaseWays : Release(w, how)
    \/ Continue("ui", GoodEnv)
    \/ /\ nwrites < MaxNestedWrites
       /\ WriteSys("stdout", "ui", 1, FALSE, GoodEnv)

SpecNested == InitNested /\ [][NextNested]_vars

\* ------------------------------------------------------------------ claims
IsSuffix(a, b) ==
    /\ Len(a) <= Len(b)
    /\ SubSeq(b, Len(b) - Len(a) + 1, Len(b)) = a

\* C1 (as claimed): after any sequence of appends the lines retained in the
\* visible buffer are the most recently appended ones in their original
\* order, trimming having removed lines only from the oldest end: the
\* document is a suffix of what it would be had nothing been trimmed.
C1_RetainsNewestLines ==
    \A w \in Widgets :
        widgets[w].constructed => IsSuffix(widgets[w].doc, widgets[w].untrimmed)

\* C2 (as claimed): after every completed append the number of text blocks
\* of the visible buffer is at most max_lines.
C2_AtMostMaxLines ==
    \A w \in Widgets :
        widgets[w].constructed => blockCount(widgets[w].doc) <= widgets[w].max_lines

\* The widget that a call reaches first: the one append_text is called on,
\* the one a queued notification is for, the one the written adapter is
\* connected to.
Receiver(l) ==
    IF l.op = "write" THEN streams[l.target].widget ELSE l.widget

\* The source label the claim expects for a call.
Label(l) == IF l.op = "append_text" THEN "manual" ELSE l.which

\* A call that hands text to a widget on the UI thread: a write to an
\* adapter made on the UI thread, an append_text call, or the delivery of a
\* write made on another thread.
HandsText(l) ==
    \/ l.op = "write" /\ IsAdapter(l.target) /\ l.thread = "ui"
    \/ l.op = "append_text"
    \/ l.op = "deliver"

\* The step l made in state S.
Replay(S, l) ==
    CASE inflight[l.thread] # NoCall ->
            RunOn(S, inflight[l.thread], l.thread, l.env)
      [] l.op = "write" /\ inflight[l.thread] = NoCall ->
            StreamWrite(S, l.target, Ctx(l.text, l.thread, l.env, TRUE), <<>>)
      [] l.op = "append_text" /\ inflight[l.thread] = NoCall ->
            append_text(S, l.widget, l.text, "manual", l.env)
      [] l.op = "deliver" /\ inflight[l.thread] = NoCall ->
            on_text_written([S EXCEPT !.queue = Tail(@)], l.widget, l.which,
                            Ctx(l.text, "ui", l.env, TRUE),
                            <<Frame("deliver", 0)>>)

WithCallback(S, w, cb) == [S EXCEPT !.widgets[w].text_callback = cb]

CallbackInvokedOnce(l) ==
    widgets'[Receiver(l)].cbLog =
        Append(widgets[Receiver(l)].cbLog,
               [text |-> l.text, source |-> Label(l)])

TextInserted(l) ==
    widgets'[Receiver(l)].inserted =
        Append(widgets[Receiver(l)].inserted,
               [text |-> l.text, source |-> Label(l), thread |-> "ui"])

CallbackNotInvoked(l) ==
    widgets'[Receiver(l)].cbLog = widgets[Receiver(l)].cbLog

\* The step leaves the state it would leave with a callback that returns.
AsIfNotRaised(l) ==
    LET w == Receiver(l)
        alt == WithCallback(Replay(WithCallback(World, w, "ok"), l), w, "raises")
    IN  /\ widgets' = alt.widgets
        /\ sink' = alt.sink
        /\ queue' = alt.queue
        /\ streams' = alt.streams
        /\ l.exc = alt.exc
        /\ l.ret = alt.ret

\* C4 (as claimed): while a callback is registered every write to a captured
\* stream and every append_text call invokes the callback exactly once with
\* the text written and the label "stdout", "stderr" or "manual"; when the
\* callback raises the text is still appended to the display.
C4_CallbackOncePerCall ==
    [][(HandsText(last') /\ widgets[Receiver(last')].text_callback # "none")
        => /\ CallbackInvokedOnce(last')
           /\ widgets[Receiver(last')].text_callback = "raises"
                => TextInserted(last')]_vars

\* C4 (amended): while a callback is registered, every NON-EMPTY text that
\* reaches the widget (a UI-thread write whose notification is emitted, an
\* append_text call, a delivered notification) invokes the callback exactly
\* once with that text and its label; if the display works the text is
\* inserted whether or not the callback raises, and a raising callback
\* leaves the same state as one that returns.  An empty text does not
\* invoke the callback, nor does a write whose notification cannot be
\* emitted, nor (before its delivery) a write made on another thread.
C4_CallbackOncePerText ==
    [][/\ (/\ HandsText(last')
           /\ last'.text # <<>>
           /\ last'.target \notin last'.env.dead
           /\ widgets[Receiver(last')].text_callback # "none")
           => /\ CallbackInvokedOnce(last')
              /\ last'.env.display[Receiver(last')] = "ok"
                    => TextInserted(last')
              /\ widgets[Receiver(last')].text_callback = "raises"
                    => AsIfNotRaised(last')
       /\ (HandsText(last') /\ last'.text = <<>>)
           => CallbackNotInvoked(last')
       /\ (/\ last'.op = "write" /\ IsAdapter(last'.target)
           /\ \/ last'.target \in last'.env.dead
              \/ last'.thread # "ui")
           => CallbackNotInvoked(last')]_vars

\* C4 witness: a write to captured stderr reached a raising callback once
\* with the label "stderr" and its text was inserted, after an earlier text
\* had already gone through the raising callback.
C4_Witness ==
    /\ last.op = "write" /\ last.which = "stderr" /\ last.text # <<>>
    /\ widgets[1].text_callback = "raises"
    /\ Len(widgets[1].cbLog) = 2
    /\ widgets[1].cbLog[2] = [text |-> last.text, source |-> "stderr"]
    /\ Len(widgets[1].inserted) = 2
    /\ widgets[1].inserted[2].text = last.text

\* C8 (as claimed): TextStream.write and append_text never raise to their
\* caller, whatever fails underneath.
C8_NeverRaises ==
    (\/ last.op = "append_text"
     \/ last.op = "write" /\ IsAdapter(last.target)) => ~last.exc

\* C10 (as claimed): TextStream.flush flushes the original stream when there
\* is one and never raises, also when the original stream's flush fails.
C10_FlushNeverRaises ==
    [][(last'.op = "flush" /\ IsAdapter(last'.target))
        => /\ ~last'.exc
           /\ (streams[last'.target].original_stream \notin last'.env.broken)
                => sink' = Append(sink,
                                  [stream |-> streams[last'.target].original_stream,
                                   op |-> "flush", text |-> <<>>])]_vars

\* The position of a text among the writes made to captured streams.
WriteIndex(text) ==
    CHOOSE i \in 1..Len(written) : written[i].text = text

\* C3 (as claimed), its order part: the texts written to captured streams
\* are appended to the display in the order of the write calls, whichever
\* threads and streams they were written from.
C3_InsertedInWriteOrder ==
    \A i, j \in 1..Len(widgets[1].inserted) :
        i < j => WriteIndex(widgets[1].inserted[i].text)
                    < WriteIndex(widgets[1].inserted[j].text)

\* l is a step of the call named: the one that ends it, or one that leaves
\* the thread inside it.
StepOf(l, name) == l.op = name \/ (l.op = "call" /\ l.calling = name)

\* The step is w's set_capture(False, False), restore_streams() or
\* closeEvent, made while w captures both streams and its adapters are the
\* global streams.
ReleasesLiveCapture(l, w, ops) ==
    /\ l.op \in ops /\ l.widget = w
    /\ l.op = "set_capture" => ~l.arg_stdout /\ ~l.arg_stderr
    /\ widgets[w].capture_stdout /\ widgets[w].capture_stderr
    /\ sys_stdout = widgets[w].stdout_stream
    /\ sys_stderr = widgets[w].stderr_stream

RestoresDisplaced(w) ==
    /\ sys_stdout' = widgets[w].displaced_stdout
    /\ sys_stderr' = widgets[w].displaced_stderr

\* C5 (as claimed): for a widget that is capturing stdout and stderr, after
\* set_capture(False, False) sys.stdout and sys.stderr are the very objects
\* they were immediately before the widget started capturing.
C5_SetCaptureOffRestoresDisplaced ==
    [][\A w \in Widgets :
          ReleasesLiveCapture(last', w, {"set_capture"}) => RestoresDisplaced(w)]_vars

\* The step may put back w's original over sys.<which>: restore_streams,
\* closeEvent, or a set_capture that disables the capture of that stream.
IsRestoreOf(l, w, which) ==
    /\ l.widget = w
    /\ \/ l.op \in {"restore_streams", "closeEvent"}
       \/ /\ StepOf(l, "set_capture")
          /\ IF which = "stdout" THEN ~l.arg_stdout ELSE ~l.arg_stderr

\* C6: a restoring operation of a widget changes sys.stdout (sys.stderr)
\* only when it is that widget's own adapter at the time of the call; a
\* stream installed by anyone else in the meantime is left in place.
C6_RestoreOnlyOwnAdapter ==
    [][\A w \in Widgets :
          /\ (IsRestoreOf(last', w, "stdout") /\ sys_stdout' # sys_stdout)
                => /\ IsAdapter(sys_stdout)
                   /\ sys_stdout = widgets[w].stdout_stream
          /\ (IsRestoreOf(last', w, "stderr") /\ sys_stderr' # sys_stderr)
                => /\ IsAdapter(sys_stderr)
                   /\ sys_stderr = widgets[w].stderr_stream]_vars

\* C6 witness: a capturing widget restored its streams after another
\* redirector had replaced sys.stdout, and the other's stream is still
\* there, while its own stderr adapter was put back.
C6_Witness ==
    \E w \in Widgets :
        /\ last.op = "restore_streams" /\ last.widget = w
        /\ IsAdapter(widgets[w].stdout_stream)
        /\ last.before_stdout = ForeignStdout
        /\ sys_stdout = ForeignStdout
        /\ widgets[w].original_stdout # ForeignStdout
        /\ last.before_stderr = widgets[w].stderr_stream
        /\ sys_stderr = widgets[w].original_stderr

\* C7 (as claimed): closeEvent or restore_streams() on a capturing widget
\* whose adapters are still the global streams leaves sys.stdout and
\* sys.stderr the pre-capture originals, and a further restore_streams()
\* changes nothing.
C7_RestoreStreamsRestoresDisplaced ==
    [][\A w \in Widgets :
          /\ ReleasesLiveCapture(last', w, {"restore_streams", "closeEvent"})
                => RestoresDisplaced(w)
          /\ (/\ last'.op = "restore_streams" /\ last'.widget = w
              /\ last.op \in {"restore_streams", "closeEvent"} /\ last.widget = w)
                => /\ sys_stdout' = sys_stdout
                   /\ sys_stderr' = sys_stderr]_vars

\* Thread t is inside a display update: it has inserted the text (lines
\* 175-176) and has the trimming or the scrolling still to do.
Mutating(t) ==
    /\ inflight[t].stack # <<>>
    /\ Head(inflight[t].stack).kind \in {"trim", "scroll"}

\* The step changed what some widget displays.
DisplayChanged ==
    \E w \in Widgets :
        \/ widgets'[w].doc # widgets[w].doc
        \/ widgets'[w].scroll # widgets[w].scroll

\* C9: a write to a captured stream made on another thread than the UI
\* thread mutates no widget: it only posts (text, source) to the UI thread
\* (or, when the emission fails, writes through); every insertion into a
\* display is executed by the UI thread, so is every step that changes a
\* display, and no thread but the UI thread is ever inside a display
\* update, so that no two display updates are in progress at the same time
\* even when other threads run between the steps of one.
C9_MutationOnUiThreadOnly ==
    /\ [](\A w \in Widgets : \A i \in 1..Len(widgets[w].inserted) :
            widgets[w].inserted[i].thread = "ui")
    /\ [](\A t \in Threads : Mutating(t) => t = "ui")
    /\ [](Cardinality({t \in Threads : Mutating(t)}) <= 1)
    /\ [][DisplayChanged => last'.thread = "ui"]_vars
    /\ [][(last'.op = "write" /\ last'.thread # "ui" /\ IsAdapter(last'.target))
            => /\ widgets' = widgets
               /\ (last'.target \notin last'.env.dead /\ last'.text # <<>>)
                    => /\ queue' = Append(queue,
                                          [widget |-> streams[last'.target].widget,
                                           text |-> last'.text,
                                           source |-> last'.which])
                       /\ sink' = sink]_vars

\* C9 witness: while the UI thread was inside the display update for a text
\* written to stdout from another thread (inserted, not yet trimmed), that
\* thread wrote a second text, which changed no widget and was queued.
C9_Witness ==
    /\ Mutating("ui")
    /\ inflight["ui"].call.op = "deliver"
    /\ Len(written) = 2
    /\ written[1].thread = "bg" /\ written[1].which = "stdout"
    /\ written[2].thread = "bg"
    /\ inflight["ui"].call.text = written[1].text
    /\ widgets[1].inserted =
          <<[text |-> written[1].text, source |-> "stdout", thread |-> "ui"]>>
    /\ last.op = "write" /\ last.thread = "bg"
    /\ last.text = written[2].text
    /\ queue = <<[widget |-> 1, text |-> written[2].text,
                  source |-> last.which]>>

\* The step appended a non-empty text to the display of widget w on the UI
\* thread and nothing failed: a write to w's adapter or w.append_text.
AppendsTo(l, w) ==
    /\ l.op \in {"write", "append_text"}
    /\ l.text # <<>>
    /\ l.thread = "ui"
    /\ l.env = GoodEnv
    /\ IF l.op = "write"
       THEN IsAdapter(l.target) /\ streams[l.target].widget = w
       ELSE l.widget = w

\* C11 (as claimed): while auto-scroll is off an append leaves the scroll
\* position of the view unchanged; while it is on every successful append
\* leaves the scroll position at the bottom of the document as it is after
\* the trimming of that append.
C11_ScrollFollowsAutoScroll ==
    [][\A w \in Widgets :
          AppendsTo(last', w)
            => IF widgets[w].auto_scroll
               THEN widgets'[w].scroll = ScrollMaximum(widgets'[w].doc)
               ELSE widgets'[w].scroll = widgets[w].scroll]_vars

\* ref is a TextStream connected to widget w (one it still holds or one it
\* has dropped).
IsAdapterOf(ref, w) == IsAdapter(ref) /\ streams[ref].widget = w

\* The one-line text a claim writes to see where it goes.
ProbeText == TextOf(MaxWrites + 1, 1, FALSE)

\* In the state S, text written to the stream ref on the UI thread is
\* inserted into the display of widget w with the label source.
ReachesWidget(S, ref, w, source) ==
    StreamWriteWhole(S, ref, ProbeText, "ui", GoodEnv).widgets[w].inserted
        = Append(S.widgets[w].inserted,
                 [text |-> ProbeText, source |-> source, thread |-> "ui"])

\* C12 (as claimed): whatever was done to the widget before, when
\* set_capture(True, True) returns sys.stdout and sys.stderr are the
\* widget's own adapters and text written to them reaches the widget; when
\* set_capture(False, False) returns neither is an adapter of the widget.
C12_SetCaptureTakesEffect ==
    [][\A w \in Widgets :
          (last'.op = "set_capture" /\ last'.widget = w)
            => /\ (last'.arg_stdout /\ last'.arg_stderr)
                    => /\ IsAdapter(sys_stdout')
                       /\ sys_stdout' = widgets'[w].stdout_stream
                       /\ IsAdapter(sys_stderr')
                       /\ sys_stderr' = widgets'[w].stderr_stream
                       /\ ReachesWidget(World', sys_stdout', w, "stdout")
                       /\ ReachesWidget(World', sys_stderr', w, "stderr")
               /\ (~last'.arg_stdout /\ ~last'.arg_stderr)
                    => /\ ~IsAdapterOf(sys_stdout, w)'
                       /\ ~IsAdapterOf(sys_stderr, w)']_vars

\* The stderr side of widget w and of the process is what it was.
StderrSideUnchanged(w) ==
    /\ sys_stderr' = sys_stderr
    /\ widgets'[w].stderr_stream = widgets[w].stderr_stream
    /\ widgets'[w].capture_stderr = widgets[w].capture_stderr
    /\ IsAdapter(widgets[w].stderr_stream)
         => streams'[widgets[w].stderr_stream] = streams[widgets[w].stderr_stream]

StdoutSideUnchanged(w) ==
    /\ sys_stdout' = sys_stdout
    /\ widgets'[w].stdout_stream = widgets[w].stdout_stream
    /\ widgets'[w].capture_stdout = widgets[w].capture_stdout
    /\ IsAdapter(widgets[w].stdout_stream)
         => streams'[widgets[w].stdout_stream] = streams[widgets[w].stdout_stream]

\* C13: the two streams are toggled independently.  A set_capture call whose
\* stderr argument equals the widget's stderr capture flag leaves sys.stderr,
\* the widget's stderr adapter and its stderr flag unchanged whatever it does
\* to stdout, and the same with stdout and stderr exchanged; a construction
\* with a capture flag off leaves that global stream untouched.
C13_StreamsToggledIndependently ==
    [][\A w \in Widgets :
          /\ (StepOf(last', "set_capture") /\ last'.widget = w)
                => /\ (last'.arg_stderr = widgets[w].capture_stderr)
                        => StderrSideUnchanged(w)
                   /\ (last'.arg_stdout = widgets[w].capture_stdout)
                        => StdoutSideUnchanged(w)
          /\ (StepOf(last', "construct") /\ last'.widget = w)
                => /\ ~last'.arg_stderr => sys_stderr' = sys_stderr
                   /\ ~last'.arg_stdout => sys_stdout' = sys_stdout]_vars

\* C13 witness: a set_capture(False, True) on a widget that captured both
\* streams put the original stdout back and left the widget's stderr adapter
\* as sys.stderr, next to a widget constructed with stdout capture only.
C13_Witness ==
    /\ last.op = "set_capture" /\ last.widget = 2
    /\ ~last.arg_stdout /\ last.arg_stderr
    /\ IsAdapterOf(last.before_stdout, 2)
    /\ sys_stdout # last.before_stdout
    /\ widgets[2].stdout_stream = NoStream /\ ~widgets[2].capture_stdout
    /\ IsAdapterOf(sys_stderr, 2)
    /\ sys_stderr = last.before_stderr
    /\ sys_stderr = widgets[2].stderr_stream /\ widgets[2].capture_stderr
    /\ widgets[1].capture_stdout /\ ~widgets[1].capture_stderr
    /\ widgets[1].original_stderr = RealStderr
    /\ widgets[2].original_stderr = RealStderr

\* The step handles on the UI thread a non-empty text that was written to a
\* captured stream (during the write, or when the queued notification is
\* delivered) while the display of the receiving widget fails and the
\* original streams work.
DisplayFailsOnCapturedText(l) ==
    /\ \/ l.op = "write" /\ IsAdapter(l.target) /\ l.thread = "ui"
          /\ l.target \notin l.env.dead
       \/ l.op = "deliver"
    /\ l.text # <<>>
    /\ l.env.display[Receiver(l)] # "ok"
    /\ l.env.broken = {}

\* The original stream that the captured stream of a text displaced.
DisplacedOriginal(l) ==
    IF l.which = "stdout" THEN widgets[Receiver(l)].original_stdout
    ELSE widgets[Receiver(l)].original_stderr

\* C14 (as claimed): when the display fails while text written to a captured
\* stream is handled, the text is written through exactly once to the
\* original stream which that captured stream displaced, the visible buffer
\* keeps no copy of a text that is written through, and a registered callback
\* has been invoked once for it.
C14_FallbackToDisplacedOriginal ==
    [][DisplayFailsOnCapturedText(last')
        => /\ sink' = Append(sink, [stream |-> DisplacedOriginal(last'),
                                    op |-> "write", text |-> last'.text])
           /\ widgets'[Receiver(last')].doc = widgets[Receiver(last')].doc
           /\ widgets[Receiver(last')].text_callback # "none"
                => CallbackInvokedOnce(last')]_vars

\* Nothing the program holds has changed: no notification, no callback, no
\* change of any display, scroll position or stream.
NothingTouched ==
    /\ widgets' = widgets
    /\ queue' = queue
    /\ sink' = sink
    /\ streams' = streams
    /\ sys_stdout' = sys_stdout
    /\ sys_stderr' = sys_stderr

\* C15: empty text is a no-op.  TextStream.write("") returns 0 and emits no
\* notification; append_text("") invokes no callback, changes no visible
\* buffer, does not scroll and writes to no original stream; for non-empty
\* text write returns the length of the text.
C15_EmptyTextIsNoOp ==
    [][/\ (last'.op = "write" /\ IsAdapter(last'.target) /\ last'.text = <<>>)
            => /\ last'.ret = 0 /\ ~last'.exc
               /\ NothingTouched
       /\ (last'.op = "append_text" /\ last'.text = <<>>)
            => /\ ~last'.exc
               /\ NothingTouched
       /\ (last'.op = "write" /\ IsAdapter(last'.target) /\ last'.text # <<>>)
            => /\ last'.ret = Len(last'.text) /\ last'.ret > 0
               /\ ~last'.exc]_vars

\* C15 witness: append_text("") on a widget with a registered callback and a
\* non-empty display, after a non-empty write that returned its length.
C15_Witness ==
    /\ last.op = "append_text" /\ last.text = <<>> /\ ~last.exc
    /\ widgets[1].text_callback = "ok"
    /\ Len(written) = 1
    /\ widgets[1].cbLog = <<[text |-> written[1].text, source |-> "stderr"]>>
    /\ widgets[1].doc = InsertAtEnd(EmptyDoc, written[1].text)
    /\ nwrites = 2
    /\ sink = <<>> /\ queue = <<>>

\* The widgets were constructed one after another while all were capturing:
\* the first recorded the stream of before any widget as its original
\* stdout, every later one the adapter of the widget before it.
ConstructedNested ==
    \A w \in Widgets :
        /\ widgets[w].constructed
        /\ IF w = 1 THEN widgets[w].original_stdout = RealStdout
           ELSE IsAdapterOf(widgets[w].original_stdout, w - 1)

AllReleased == \A w \in Widgets : widgets[w].released

\* C16 (as claimed): with two or more widgets constructed one after another,
\* each capturing stdout, once every widget has released its capture by
\* set_capture(False, False), restore_streams or closeEvent, in any order,
\* sys.stdout is the stream that was in place before the first widget was
\* constructed.
C16_AllReleasedRestoresFirstOriginal ==
    (ConstructedNested /\ AllReleased) => sys_stdout = RealStdout

\* Text written now to the stream ref on the UI thread leaves the display
\* and the callback log of widget w as they are.
LeavesWidgetAlone(ref, w) ==
    LET R == StreamWriteWhole(World, ref, ProbeText, "ui", GoodEnv)
    IN  /\ R.widgets[w].inserted = widgets[w].inserted
        /\ R.widgets[w].doc = widgets[w].doc
        /\ R.widgets[w].cbLog = widgets[w].cbLog

\* C17 (as claimed): in every reachable state a widget whose stdout capture
\* flag is off receives no text from sys.stdout: sys.stdout is not an adapter
\* connected to that widget, and a write to sys.stdout reaches neither its
\* display nor its callback; likewise for stderr.
C17_FlagOffReceivesNothing ==
    \A w \in Widgets :
        /\ (widgets[w].constructed /\ ~widgets[w].capture_stdout)
              => /\ ~IsAdapterOf(sys_stdout, w)
                 /\ LeavesWidgetAlone(sys_stdout, w)
        /\ (widgets[w].constructed /\ ~widgets[w].capture_stderr)
              => /\ ~IsAdapterOf(sys_stderr, w)
                 /\ LeavesWidgetAlone(sys_stderr, w)

====
